---- MODULE Spec2Model ----
(***************************************************************************)
(* Order book reconstruction of quantsc/sp24-mpb: the Book of              *)
(* src/OrderBook.py (an insertion-ordered mapping from order identifier to *)
(* resting Order, Book.apply and Book.bbo) driven by the row-by-row replay *)
(* of src/helpers.py build_book_from_mbo.                                  *)
(***************************************************************************)
EXTENDS Integers, Sequences, FiniteSets, TLC

(* Bounds of the model: defined prices are 1..MaxPrice, sizes 0..MaxSize.    *)
MaxPrice == 2
MaxSize == 2

(* databento_dbn.UNDEF_PRICE is INT64_MAX; all that Book.apply does with it *)
(* is compare an event price against it, so it is modelled as the one       *)
(* price above every defined price of the model.                            *)
UNDEF_PRICE == MaxPrice + 1

(* PriceLevel.price = None *)
None == 0 - 1

(* the order identifiers and the event timestamps of the modelled feed *)
OrderIds == {1, 2}
Timestamps == {1, 2}
Prices == 1..MaxPrice
Sizes == 0..MaxSize
(* side "N" is the feed's "no side"; only A and B are valid for A/C/M *)
Sides == {"A", "B", "N"}
Actions == {"A", "C", "M", "R", "T", "F"}

(* One row of the event table, as Book.apply reads it. *)
Rows ==
    [action : Actions, ts_event : Timestamps, side : Sides,
     order_id : OrderIds, price : Prices \cup {UNDEF_PRICE}, size : Sizes]

NoRow == [action |-> "-", ts_event |-> 0, side |-> "-", order_id |-> 0,
          price |-> 0, size |-> 0]

VARIABLES
    orders,   \* Book.orders: the dict as its sequence of items, in insertion order
    row,      \* the row of the current iteration of the replay (NoRow between iterations)
    before,   \* Book.orders as it was when Book.apply was entered for row
    pc,       \* "next": between iterations; "applied": apply returned; "raised": apply raised
    err       \* the exception that ended the replay ("none" while it runs)

bookVars == <<orders, row, before, pc, err>>

VARIABLES
    df,               \* build_book_from_mbo: the rows of df iterated so far
    best_bids_list,   \* build_book_from_mbo: best_bids_list
    best_asks_list    \* build_book_from_mbo: best_asks_list

replayVars == <<df, best_bids_list, best_asks_list>>

VARIABLES
    data,   \* the raw event table handed to prepare_symbol / read by get_data
    call,   \* the call made on it: function and arguments (NoCall before it)
    ret     \* what the call did: status, the table returned, the exception raised

prepVars == <<data, call, ret>>

VARIABLES
    \* the AlpacaFramework object: self.base_url, self.api_key, self.api_secret, self.client
    framework,
    \* the calls made on self.client so far, each with the endpoint it went to
    client_calls

brokerVars == <<framework, client_calls>>

vars == <<bookVars, replayVars, prepVars, brokerVars>>

(* class Order *)
Order(side, price, size, ts_event) ==
    [side |-> side, price |-> price, size |-> size, ts_event |-> ts_event]

(* class PriceLevel, with its defaults *)
PriceLevel(price, size, count) ==
    [price |-> price, size |-> size, count |-> count, total_size |-> 0]

EmptyLevel == PriceLevel(None, 0, 0)

----------------------------------------------------------------------------
(* The dict operations Book uses, on the sequence of <<key, value>> items.  *)

Keys(d) == {d[i].id : i \in 1..Len(d)}

Has(d, k) == k \in Keys(d)

IndexOf(d, k) == CHOOSE i \in 1..Len(d) : d[i].id = k

\* d[k]
Get(d, k) == d[IndexOf(d, k)].order

\* Put as a list append: an existing key gets a second item
PutAppend(d, k, v) == Append(d, [id |-> k, order |-> v])

\* d[k] = v : an existing key keeps its position, a new key goes last
Put(d, k, v) ==
    IF Has(d, k)
    THEN [d EXCEPT ![IndexOf(d, k)] = [id |-> k, order |-> v]]
    ELSE Append(d, [id |-> k, order |-> v])

\* d.pop(k)
Pop(d, k) ==
    LET i == IndexOf(d, k)
    IN  SubSeq(d, 1, i - 1) \o SubSeq(d, i + 1, Len(d))

----------------------------------------------------------------------------
(* Book.bbo: one scan of orders.values() in insertion order.                *)

\* AskStep with the elif branch lost: orders tied at the best price do not merge
AskStepNoMerge(best_ask, order) ==
    IF best_ask.price = None \/ best_ask.price > order.price
    THEN PriceLevel(order.price, order.size, 1)
    ELSE best_ask

\* AskStep in which an order at the best price replaces the level
AskStepLatestWins(best_ask, order) ==
    IF best_ask.price = None \/ best_ask.price >= order.price
    THEN PriceLevel(order.price, order.size, 1)
    ELSE best_ask

\* the body of the loop for an order of side "A"
AskStep(best_ask, order) ==
    IF best_ask.price = None \/ best_ask.price > order.price
    THEN PriceLevel(order.price, order.size, 1)
    ELSE IF best_ask.price = order.price
         THEN [best_ask EXCEPT !.size = @ + order.size, !.count = @ + 1]
         ELSE best_ask

\* BidStep with the comparison of AskStep: the lowest bid wins
BidStepLowest(best_bid, order) ==
    IF best_bid.price = None \/ best_bid.price > order.price
    THEN PriceLevel(order.price, order.size, 1)
    ELSE IF best_bid.price = order.price
         THEN [best_bid EXCEPT !.size = @ + order.size, !.count = @ + 1]
         ELSE best_bid

\* the body of the loop for an order of side "B"
BidStep(best_bid, order) ==
    IF best_bid.price = None \/ best_bid.price < order.price
    THEN PriceLevel(order.price, order.size, 1)
    ELSE IF best_bid.price = order.price
         THEN [best_bid EXCEPT !.size = @ + order.size, !.count = @ + 1]
         ELSE best_bid

\* one iteration of the loop: the locals after it, from the locals before it
ScanStep(loc, order) ==
    IF order.side = "A"
    THEN [loc EXCEPT !.best_ask = AskStep(@, order),
                     !.total_ask_size = @ + order.size]
    ELSE IF order.side = "B"
         THEN [loc EXCEPT !.best_bid = BidStep(@, order),
                          !.total_bid_size = @ + order.size]
         ELSE loc

RECURSIVE Scan(_, _)
\* the locals of bbo after the first n orders of d
Scan(d, n) ==
    IF n = 0
    THEN [best_ask |-> EmptyLevel, best_bid |-> EmptyLevel,
          total_bid_size |-> 0, total_ask_size |-> 0]
    ELSE ScanStep(Scan(d, n - 1), d[n].order)

\* bbo with total_size taken from the best level instead of the whole side
bboBestLevelTotal(d) ==
    LET loc == Scan(d, Len(d))
    IN  << [loc.best_bid EXCEPT !.total_size = loc.best_bid.size],
           [loc.best_ask EXCEPT !.total_size = loc.best_ask.size] >>

\* Book.bbo(): <<best_bid, best_ask>>
bbo(d) ==
    LET loc == Scan(d, Len(d))
    IN  << [loc.best_bid EXCEPT !.total_size = loc.total_bid_size],
           [loc.best_ask EXCEPT !.total_size = loc.total_ask_size] >>

----------------------------------------------------------------------------
(* Book.apply: the mapping it leaves and the exception it raises, if any.   *)

Returns(d) == [orders |-> d, err |-> "none"]
Raises(d, e) == [orders |-> d, err |-> e]

\* action "A"
ApplyAdd(d, r) ==
    Returns(Put(d, r.order_id, Order(r.side, r.price, r.size, r.ts_event)))

\* ApplyCancel that never removes a fully cancelled order
ApplyCancelKeep(d, r) ==
    IF ~Has(d, r.order_id)
    THEN Returns(d)
    ELSE LET existing_order == Get(d, r.order_id)
         IN  IF ~(existing_order.size >= r.size)
             THEN Raises(d, "AssertionError")
             ELSE Returns(Put(d, r.order_id,
                     [existing_order EXCEPT !.size = @ - r.size]))

\* ApplyCancel that looks the order up as Modify does: an unknown identifier raises
ApplyCancelStrict(d, r) ==
    IF ~Has(d, r.order_id)
    THEN Raises(d, "KeyError")
    ELSE LET existing_order == Get(d, r.order_id)
         IN  IF ~(existing_order.size >= r.size)
             THEN Raises(d, "AssertionError")
             ELSE IF existing_order.size - r.size = 0
                  THEN Returns(Pop(d, r.order_id))
                  ELSE Returns(Put(d, r.order_id,
                          [existing_order EXCEPT !.size = @ - r.size]))

\* ApplyCancel without the assertion on the resting size
ApplyCancelUnchecked(d, r) ==
    IF ~Has(d, r.order_id)
    THEN Returns(d)
    ELSE LET existing_order == Get(d, r.order_id)
         IN  IF existing_order.size - r.size = 0
             THEN Returns(Pop(d, r.order_id))
             ELSE Returns(Put(d, r.order_id,
                     [existing_order EXCEPT !.size = @ - r.size]))

\* ApplyCancel that gives a partially cancelled order the timestamp of the event
ApplyCancelRequeue(d, r) ==
    IF ~Has(d, r.order_id)
    THEN Returns(d)
    ELSE LET existing_order == Get(d, r.order_id)
         IN  IF ~(existing_order.size >= r.size)
             THEN Raises(d, "AssertionError")
             ELSE IF existing_order.size - r.size = 0
                  THEN Returns(Pop(d, r.order_id))
                  ELSE Returns(Put(d, r.order_id,
                          [existing_order EXCEPT !.size = @ - r.size,
                                                 !.ts_event = r.ts_event]))

\* action "C"
ApplyCancel(d, r) ==
    IF ~Has(d, r.order_id)
    THEN Returns(d)
    ELSE LET existing_order == Get(d, r.order_id)
         IN  IF ~(existing_order.size >= r.size)
             THEN Raises(d, "AssertionError")
             ELSE IF existing_order.size - r.size = 0
                  THEN Returns(Pop(d, r.order_id))
                  ELSE Returns(Put(d, r.order_id,
                          [existing_order EXCEPT !.size = @ - r.size]))

\* ApplyModify that resets the priority timestamp on every modification
ApplyModifyReset(d, r) ==
    IF ~Has(d, r.order_id)
    THEN Raises(d, "KeyError")
    ELSE LET existing_order == Get(d, r.order_id)
         IN  Returns(Put(d, r.order_id,
                 [existing_order EXCEPT !.ts_event = r.ts_event,
                                        !.size = r.size,
                                        !.price = r.price]))

\* ApplyModify that inserts the order when the identifier is not resting
ApplyModifyUpsert(d, r) ==
    IF ~Has(d, r.order_id)
    THEN Returns(Put(d, r.order_id, Order(r.side, r.price, r.size, r.ts_event)))
    ELSE LET existing_order == Get(d, r.order_id)
             ts == IF existing_order.price # r.price \/ existing_order.size < r.size
                   THEN r.ts_event
                   ELSE existing_order.ts_event
         IN  Returns(Put(d, r.order_id,
                 [existing_order EXCEPT !.ts_event = ts,
                                        !.size = r.size,
                                        !.price = r.price]))

\* ApplyModify that also takes the side of the event
ApplyModifyTakesSide(d, r) ==
    IF ~Has(d, r.order_id)
    THEN Raises(d, "KeyError")
    ELSE LET existing_order == Get(d, r.order_id)
             ts == IF existing_order.price # r.price \/ existing_order.size < r.size
                   THEN r.ts_event
                   ELSE existing_order.ts_event
         IN  Returns(Put(d, r.order_id,
                 [existing_order EXCEPT !.ts_event = ts,
                                        !.size = r.size,
                                        !.price = r.price,
                                        !.side = r.side]))

\* action "M"
ApplyModify(d, r) ==
    IF ~Has(d, r.order_id)
    THEN Raises(d, "KeyError")
    ELSE LET existing_order == Get(d, r.order_id)
             ts == IF existing_order.price # r.price \/ existing_order.size < r.size
                   THEN r.ts_event
                   ELSE existing_order.ts_event
         IN  Returns(Put(d, r.order_id,
                 [existing_order EXCEPT !.ts_event = ts,
                                        !.size = r.size,
                                        !.price = r.price]))

\* ValidRestingEvent without the assertion on the price
ValidRestingEventSideOnly(r) ==
    r.side = "A" \/ r.side = "B"

\* the two assertions that guard the resting-order actions
ValidRestingEvent(r) ==
    /\ r.side = "A" \/ r.side = "B"
    /\ r.price # UNDEF_PRICE

\* apply with the Clear branch placed after the assertions
applyClearChecked(d, r) ==
    IF r.action = "T" \/ r.action = "F"
    THEN Returns(d)
    ELSE IF ~ValidRestingEvent(r)
    THEN Raises(d, "AssertionError")
    ELSE IF r.action = "R"
    THEN Returns(<< >>)
    ELSE IF r.action = "A"
    THEN ApplyAdd(d, r)
    ELSE IF r.action = "C"
    THEN ApplyCancel(d, r)
    ELSE IF r.action = "M"
    THEN ApplyModify(d, r)
    ELSE Returns(d)

\* apply with the Trade/Fill return placed after the assertions
applyTradeChecked(d, r) ==
    IF r.action = "R"
    THEN Returns(<< >>)
    ELSE IF ~ValidRestingEvent(r)
    THEN Raises(d, "AssertionError")
    ELSE IF r.action = "T" \/ r.action = "F"
    THEN Returns(d)
    ELSE IF r.action = "A"
    THEN ApplyAdd(d, r)
    ELSE IF r.action = "C"
    THEN ApplyCancel(d, r)
    ELSE IF r.action = "M"
    THEN ApplyModify(d, r)
    ELSE Returns(d)

\* Book.apply(slice)
apply(d, r) ==
    IF r.action = "T" \/ r.action = "F"
    THEN Returns(d)
    ELSE IF r.action = "R"
    THEN Returns(<< >>)
    ELSE IF ~ValidRestingEvent(r)
    THEN Raises(d, "AssertionError")
    ELSE IF r.action = "A"
    THEN ApplyAdd(d, r)
    ELSE IF r.action = "C"
    THEN ApplyCancel(d, r)
    ELSE IF r.action = "M"
    THEN ApplyModify(d, r)
    ELSE Returns(d)

----------------------------------------------------------------------------
(* The replay of build_book_from_mbo: a fresh Book, then one row after the  *)
(* other is applied to it; an exception of Book.apply ends the replay.      *)

\* build_book_from_mbo has not been called
ReplayIdle ==
    /\ df = << >>
    /\ best_bids_list = << >>
    /\ best_asks_list = << >>

NoCall == [fn |-> "none"]
NoReturn == [status |-> "none", df |-> << >>, err |-> "none"]

\* neither prepare_symbol nor get_data has been called
PrepIdle ==
    /\ data = << >>
    /\ call = NoCall
    /\ ret = NoReturn

NoFramework == [constructed |-> FALSE]

\* no AlpacaFramework constructed
BrokerIdle ==
    /\ framework = NoFramework
    /\ client_calls = << >>

Init ==
    /\ BrokerIdle
    /\ orders = << >>
    /\ row = NoRow
    /\ before = << >>
    /\ pc = "next"
    /\ err = "none"
    /\ ReplayIdle
    /\ PrepIdle

\* one iteration of the loop: the next row of the table is applied
ApplyRow ==
    /\ pc = "next"
    /\ \E r \in Rows :
          LET res == apply(orders, r)
          IN  /\ row' = r
              /\ before' = orders
              /\ orders' = res.orders
              /\ err' = res.err
              /\ pc' = IF res.err = "none" THEN "applied" ELSE "raised"
    /\ UNCHANGED <<replayVars, prepVars, brokerVars>>

\* the loop goes on to its next iteration: the row that was applied is dropped
NextIteration ==
    /\ pc = "applied"
    /\ row' = NoRow
    /\ before' = orders
    /\ pc' = "next"
    /\ UNCHANGED <<orders, err>>
    /\ UNCHANGED <<replayVars, prepVars, brokerVars>>

Next == ApplyRow \/ NextIteration

Spec == Init /\ [][Next]_vars

TypeOK ==
    /\ pc \in {"next", "applied", "raised"}
    /\ err \in {"none", "AssertionError", "KeyError"}
    /\ row \in Rows \cup {NoRow}
    /\ \A i \in 1..Len(orders) :
          /\ orders[i].id \in OrderIds
          /\ orders[i].order.side \in {"A", "B"}
          /\ orders[i].order.price \in Prices
          /\ orders[i].order.size \in Sizes
          /\ orders[i].order.ts_event \in Timestamps
    /\ \A i, j \in 1..Len(orders) : orders[i].id = orders[j].id => i = j

----------------------------------------------------------------------------
(* build_book_from_mbo with its two result lists.  The table is read row by *)
(* row through its iterator; df holds the rows read so far, and the table   *)
(* may end after any of them.                                               *)

\* the longest table replayed
MaxRows == 2

\* the rows of the replayed tables: valid sides, the lowest and the highest
\* defined price, the largest size
FeedRows ==
    {r \in Rows : /\ r.side \in {"A", "B"}
                  /\ r.price \in {1, MaxPrice}
                  /\ r.size = MaxSize}

\* the record appended to best_bids_list / best_asks_list
Snapshot(ts_event, level) ==
    [ts_event |-> ts_event, price |-> level.price, size |-> level.size,
     total |-> level.total_size]

\* the loop body with book.apply(row) moved before book.bbo()
IterationApplyFirst(d, r) ==
    LET res == apply(d, r)
        b == bbo(res.orders)
    IN  [bid |-> Snapshot(r.ts_event, b[1]),
         ask |-> Snapshot(r.ts_event, b[2]),
         res |-> res]

\* the loop body: bbo(), the two appended records, then apply(row)
Iteration(d, r) ==
    LET b == bbo(d)
    IN  [bid |-> Snapshot(r.ts_event, b[1]),
         ask |-> Snapshot(r.ts_event, b[2]),
         res |-> apply(d, r)]

ReplayInit ==
    /\ BrokerIdle
    /\ orders = << >>
    /\ row = NoRow
    /\ before = << >>
    /\ pc = "next"
    /\ err = "none"
    /\ df = << >>
    /\ best_bids_list = << >>
    /\ best_asks_list = << >>
    /\ PrepIdle

\* one iteration of the for loop on the next row of the table
ReplayRow ==
    /\ pc = "next"
    /\ Len(df) < MaxRows
    /\ \E r \in FeedRows :
          LET it == Iteration(orders, r)
          IN  /\ df' = Append(df, r)
              /\ row' = r
              /\ before' = orders
              /\ best_bids_list' = Append(best_bids_list, it.bid)
              /\ best_asks_list' = Append(best_asks_list, it.ask)
              /\ orders' = it.res.orders
              /\ err' = it.res.err
              /\ pc' = IF it.res.err = "none" THEN "next" ELSE "raised"
    /\ UNCHANGED <<prepVars, brokerVars>>

\* the table is exhausted: return best_bids_list, best_asks_list
ReplayReturn ==
    /\ pc = "next"
    /\ pc' = "returned"
    /\ UNCHANGED <<orders, row, before, err, replayVars, prepVars, brokerVars>>

ReplayNext == ReplayRow \/ ReplayReturn

SpecReplay == ReplayInit /\ [][ReplayNext]_vars

----------------------------------------------------------------------------
(* prepare_symbol and get_data of src/helpers.py, on a raw event table.     *)
(* Only the columns the two functions read are modelled; timestamps are     *)
(* counted in ticks of the Datetime resolution.                             *)

\* the longest raw table
MaxData == 2

\* ticks per calendar day
TicksPerDay == 2

\* the largest value of polars Int16
INT16_MAX == 32767

Symbols == {"AAPL", "MSFT"}
\* the last tick of day 0 and the first tick of day 1
RawTimestamps == {TicksPerDay - 1, TicksPerDay}
Days == {0, 1}
\* sizes are unsigned; the ends of the Int16 range are among them
RawSizes == {0, 1, INT16_MAX, INT16_MAX + 1}
RawActions == {"A", "R", "T", "F"}

RawRows ==
    [symbol : Symbols, size : RawSizes, action : RawActions,
     ts_event : RawTimestamps]

Returned(t) == [status |-> "returned", df |-> t, err |-> "none"]
Failed(e) == [status |-> "raised", df |-> << >>, err |-> e]

\* df["ts_event"].cast(pl.Date): the calendar day of a timestamp
DateOf(ts) == ts \div TicksPerDay

\* df["size"].cast(pl.Int16), a strict cast: a value outside Int16 is an error
CastInt16(t) ==
    IF \E i \in 1..Len(t) : t[i].size > INT16_MAX \/ t[i].size < 0 - INT16_MAX - 1
    THEN Failed("CastError")
    ELSE Returned(t)

\* the filters of prepare_symbol, one after the other
FilterSymbolAndSize(t, symbol) ==
    LET Keep(r) == r.symbol = symbol /\ r.size # 0 IN SelectSeq(t, Keep)

FilterAction(t) ==
    LET Keep(r) == r.action # "T" /\ r.action # "F" IN SelectSeq(t, Keep)

FilterDate(t, date) ==
    LET Keep(r) == DateOf(r.ts_event) = date IN SelectSeq(t, Keep)

\* prepare_symbol(data, date, symbol)
prepare_symbol(t, date, symbol) ==
    CastInt16(FilterDate(FilterAction(FilterSymbolAndSize(t, symbol)), date))

\* the parameters prepare_symbol declares
PrepareSymbolParams == <<"data", "date", "symbol">>

\* a call of prepare_symbol with positional arguments: Python binds them to the
\* parameters and raises TypeError when there are too many or too few
CallPrepareSymbol(args) ==
    IF Len(args) # Len(PrepareSymbolParams)
    THEN Failed("TypeError")
    ELSE prepare_symbol(args[1], args[2], args[3])

RECURSIVE MinTs(_, _)
\* pl.col("ts_event").min() over the first n rows
MinTs(t, n) ==
    IF n = 1 THEN t[1].ts_event
    ELSE IF t[n].ts_event < MinTs(t, n - 1) THEN t[n].ts_event ELSE MinTs(t, n - 1)

\* df.with_columns(pl.col("ts_event") - pl.col("ts_event").min())
RemoveMin(t) ==
    [i \in 1..Len(t) |-> [t[i] EXCEPT !.ts_event = @ - MinTs(t, Len(t))]]

\* get_data(symbol, start_date, end_date, base_path, remove_min), with file the
\* table that pl.read_parquet returns
get_data(file, symbol, start_date, end_date, remove_min) ==
    LET r == CallPrepareSymbol(<<file, start_date, end_date, symbol>>)
    IN  IF r.status = "raised"
        THEN r
        ELSE IF remove_min THEN Returned(RemoveMin(r.df)) ELSE r

PrepInit ==
    /\ BrokerIdle
    /\ orders = << >>
    /\ row = NoRow
    /\ before = << >>
    /\ pc = "next"
    /\ err = "none"
    /\ ReplayIdle
    /\ PrepIdle

\* the raw table gets one more row
AddDataRow ==
    /\ call = NoCall
    /\ Len(data) < MaxData
    /\ \E r \in RawRows : data' = Append(data, r)
    /\ UNCHANGED <<call, ret, bookVars, replayVars, brokerVars>>

\* prepare_symbol(data, date, symbol) is called and returns or raises
PrepareSymbol ==
    /\ call = NoCall
    /\ \E date \in Days, symbol \in Symbols :
          /\ call' = [fn |-> "prepare_symbol", date |-> date, symbol |-> symbol]
          /\ ret' = prepare_symbol(data, date, symbol)
    /\ UNCHANGED <<data, bookVars, replayVars, brokerVars>>

\* get_data(symbol, start_date, end_date, base_path, remove_min) is called
GetData ==
    /\ call = NoCall
    /\ \E symbol \in Symbols, start_date \in Days, end_date \in Days,
          remove_min \in BOOLEAN :
          /\ call' = [fn |-> "get_data", symbol |-> symbol,
                      start_date |-> start_date, end_date |-> end_date,
                      remove_min |-> remove_min]
          /\ ret' = get_data(data, symbol, start_date, end_date, remove_min)
    /\ UNCHANGED <<data, bookVars, replayVars, brokerVars>>

PrepNext == AddDataRow \/ PrepareSymbol \/ GetData

SpecPrepare == PrepInit /\ [][PrepNext]_vars

----------------------------------------------------------------------------
(* merge_bbo of src/helpers.py on two lists of snapshot records.            *)
(* Timestamps are durations in microseconds.  A price divided by            *)
(* FIXED_PRICE_SCALE and averaged is kept exactly, as the sum of the raw    *)
(* prices, their number and the scale; a null price has number 0.           *)

\* the most snapshot records in the two lists together
MaxSnaps == 3

\* databento_dbn.FIXED_PRICE_SCALE
FIXED_PRICE_SCALE == 1000000000

\* microseconds per millisecond (dt.total_milliseconds) and per second (dt.total_seconds)
UsPerMs == 1000
UsPerS == 1000000

Units == {"ms", "s"}
SnapTimestamps == {0, UsPerMs - 1, UsPerS}
SnapPrices == {None, 100, 102}
\* size at the best level and total size of the side
SnapDepths == {<<5, 5>>, <<7, 9>>}

SnapRecords ==
    {[ts_event |-> ts, price |-> p, size |-> d[1], total |-> d[2]] :
        ts \in SnapTimestamps, p \in SnapPrices, d \in SnapDepths}

NullPx == [sum |-> 0, count |-> 0, scale |-> FIXED_PRICE_SCALE]

\* pl.col(px) / FIXED_PRICE_SCALE of one snapshot: null stays null
Scaled(price) ==
    IF price = None THEN NullPx
    ELSE [sum |-> price, count |-> 1, scale |-> FIXED_PRICE_SCALE]

\* dt.total_milliseconds() / dt.total_seconds(): whole units, fraction dropped
Bucket(ts, unit) ==
    IF unit = "ms" THEN ts \div UsPerMs ELSE ts \div UsPerS

\* the group of a bucket after its first snapshot
NewGroup(b, snap) ==
    [ts_event |-> b, px |-> Scaled(snap.price), ct |-> snap.size,
     total |-> snap.total]

\* AddToGroup with first() in place of last() for the total
AddToGroupFirstTotal(g, snap) ==
    [g EXCEPT !.px = [@ EXCEPT !.sum = @ + Scaled(snap.price).sum,
                               !.count = @ + Scaled(snap.price).count],
              !.ct = @ + snap.size]

\* a further snapshot of the bucket: mean() skips nulls, sum(), last()
AddToGroup(g, snap) ==
    [g EXCEPT !.px = [@ EXCEPT !.sum = @ + Scaled(snap.price).sum,
                               !.count = @ + Scaled(snap.price).count],
              !.ct = @ + snap.size,
              !.total = snap.total]

RECURSIVE GroupAgg(_, _, _)
\* group_by("ts_event").agg(mean, sum, last) over the first n snapshots,
\* the groups in the order in which their buckets first occur
GroupAgg(list, n, unit) ==
    IF n = 0 THEN << >>
    ELSE LET groups == GroupAgg(list, n - 1, unit)
             b == Bucket(list[n].ts_event, unit)
         IN  IF \E i \in 1..Len(groups) : groups[i].ts_event = b
             THEN LET i == CHOOSE j \in 1..Len(groups) : groups[j].ts_event = b
                  IN  [groups EXCEPT ![i] = AddToGroup(@, list[n])]
             ELSE Append(groups, NewGroup(b, list[n]))

MergedRow(l, r) ==
    [ts_event |-> l.ts_event,
     bid_px_00 |-> l.px, bid_ct_00 |-> l.ct, best_bid_total |-> l.total,
     ask_px_00 |-> r.px, ask_ct_00 |-> r.ct, best_ask_total |-> r.total]

\* a left join: a bucket of the bid side alone gets a row with nulls for the asks
JoinLeft(left, right) ==
    {MergedRow(left[i], right[j]) :
        <<i, j>> \in {p \in (1..Len(left)) \X (1..Len(right)) :
                        left[p[1]].ts_event = right[p[2]].ts_event}}
    \cup {MergedRow(left[i], [px |-> NullPx, ct |-> 0, total |-> 0]) :
             i \in {k \in 1..Len(left) :
                       \A j \in 1..Len(right) : right[j].ts_event # left[k].ts_event}}

\* best_bids.join(best_asks, on="ts_event", how="inner"): the rows, in no order
Join(left, right) ==
    {MergedRow(left[i], right[j]) :
        <<i, j>> \in {p \in (1..Len(left)) \X (1..Len(right)) :
                        left[p[1]].ts_event = right[p[2]].ts_event}}

RECURSIVE ForwardFill(_, _)
\* pl.all().forward_fill() over the first n rows: a null takes the last value above it
ForwardFill(t, n) ==
    IF n <= 1 THEN SubSeq(t, 1, n)
    ELSE LET above == ForwardFill(t, n - 1)
             prev == above[n - 1]
             cur == t[n]
         IN  Append(above,
                [cur EXCEPT !.bid_px_00 = IF @.count = 0 THEN prev.bid_px_00 ELSE @,
                            !.ask_px_00 = IF @.count = 0 THEN prev.ask_px_00 ELSE @])

\* the orders in which a set of rows can stand in a table
TablesOf(rows) ==
    {t \in [1..Cardinality(rows) -> rows] : \A r \in rows : \E i \in DOMAIN t : t[i] = r}

MergeInit ==
    /\ BrokerIdle
    /\ orders = << >>
    /\ row = NoRow
    /\ before = << >>
    /\ pc = "next"
    /\ err = "none"
    /\ ReplayIdle
    /\ PrepIdle

\* one more record in the list of best-bid snapshots
AddBidSnapshot ==
    /\ call = NoCall
    /\ Len(best_bids_list) + Len(best_asks_list) < MaxSnaps
    /\ \E s \in SnapRecords : best_bids_list' = Append(best_bids_list, s)
    /\ UNCHANGED <<best_asks_list, df, bookVars, prepVars, brokerVars>>

\* one more record in the list of best-ask snapshots
AddAskSnapshot ==
    /\ call = NoCall
    /\ Len(best_bids_list) + Len(best_asks_list) < MaxSnaps
    /\ \E s \in SnapRecords : best_asks_list' = Append(best_asks_list, s)
    /\ UNCHANGED <<best_bids_list, df, bookVars, prepVars, brokerVars>>

\* merge_bbo(best_bids_list, best_asks_list, unit) is called on two lists that
\* are not empty; group_by and join fix no row order, so any order can come out
MergeBbo ==
    /\ call = NoCall
    /\ best_bids_list # << >> /\ best_asks_list # << >>
    /\ \E unit \in Units :
          LET best_bids == GroupAgg(best_bids_list, Len(best_bids_list), unit)
              best_asks == GroupAgg(best_asks_list, Len(best_asks_list), unit)
          IN  \E merged \in TablesOf(Join(best_bids, best_asks)) :
                 /\ call' = [fn |-> "merge_bbo", unit |-> unit]
                 /\ ret' = [status |-> "returned",
                            df |-> ForwardFill(merged, Len(merged)),
                            err |-> "none",
                            best_bids |-> best_bids,
                            best_asks |-> best_asks]
    /\ UNCHANGED <<data, bookVars, replayVars, brokerVars>>

MergeNext == AddBidSnapshot \/ AddAskSnapshot \/ MergeBbo

SpecMerge == MergeInit /\ [][MergeNext]_vars

----------------------------------------------------------------------------
(* prep_for_prediction of src/helpers.py on a merged table.  The rolling    *)
(* feature columns it adds change no row and are left out; a row keeps its  *)
(* best prices, from which mid_price and target are computed.               *)

\* the most rows of the table, and the largest offset
MaxTable == 3
MaxOffset == 4

\* prices after forward_fill: a leading null stays null
MergedPrices == {None, 100, 104}
MergedRows == [bid_px_00 : MergedPrices, ask_px_00 : MergedPrices]

\* features.bid_ask_spread, for one row: ask_px_00 - bid_px_00
bid_ask_spread(r) == r.ask_px_00 - r.bid_px_00

\* features.mid_price: (ask + bid) / 2, null where a price is null
mid_price(t) ==
    [i \in 1..Len(t) |->
        IF t[i].ask_px_00 = None \/ t[i].bid_px_00 = None THEN None
        ELSE (t[i].ask_px_00 + t[i].bid_px_00) \div 2]

\* Expr.diff(): the value minus the one a row above, null in the first row
Diff(col) ==
    [i \in 1..Len(col) |->
        IF i = 1 \/ col[i] = None \/ col[i - 1] = None THEN None
        ELSE col[i] - col[i - 1]]

\* Expr.shift(-offset): the value offset rows below, null past the end
ShiftUp(col, offset) ==
    [i \in 1..Len(col) |-> IF i + offset <= Len(col) THEN col[i + offset] ELSE None]

\* the rows a Python slice [: stop] keeps of n rows
SliceStop(n, stop) ==
    IF stop < 0 THEN (IF n + stop < 0 THEN 0 ELSE n + stop)
    ELSE (IF stop > n THEN n ELSE stop)

\* df.with_columns(mid_price, target)[: -offset]
prep_for_prediction(t, offset) ==
    LET mid == mid_price(t)
        target == ShiftUp(Diff(mid), offset)
        with_columns == [i \in 1..Len(t) |->
                            [bid_px_00 |-> t[i].bid_px_00, ask_px_00 |-> t[i].ask_px_00,
                             mid_price |-> mid[i], target |-> target[i]]]
    IN  SubSeq(with_columns, 1, SliceStop(Len(t), 0 - offset))

PredictInit ==
    /\ BrokerIdle
    /\ orders = << >>
    /\ row = NoRow
    /\ before = << >>
    /\ pc = "next"
    /\ err = "none"
    /\ ReplayIdle
    /\ PrepIdle

\* one more row in the merged table
AddMergedRow ==
    /\ call = NoCall
    /\ Len(data) < MaxTable
    /\ \E r \in MergedRows : data' = Append(data, r)
    /\ UNCHANGED <<call, ret, bookVars, replayVars, brokerVars>>

\* prep_for_prediction(df, offset) is called
PrepForPrediction ==
    /\ call = NoCall
    /\ \E offset \in 0..MaxOffset :
          /\ call' = [fn |-> "prep_for_prediction", offset |-> offset]
          /\ ret' = Returned(prep_for_prediction(data, offset))
    /\ UNCHANGED <<data, bookVars, replayVars, brokerVars>>

PredictNext == AddMergedRow \/ PrepForPrediction

SpecPredict == PredictInit /\ [][PredictNext]_vars

----------------------------------------------------------------------------
(* build_features of src/features.py, by the columns of the table: a table  *)
(* is the sequence of its column names, and every statement that adds a     *)
(* column is a step.  The DataFrame methods the code calls are taken to     *)
(* exist and to add the column they are given.                              *)

\* the columns build_features reads
RequiredColumns == <<"ask_px_00", "bid_px_00", "ask_ct_00", "bid_ct_00", "mid_price">>
\* columns a table may have besides
OptionalColumns == {"ts_event", "purchase_ct", "sale_ct"}
Lookbacks == {15, 60}

feature_cols ==
    <<"log_return", "rolling_volume_imbalance", "rolling_weighted_mid_price",
      "rolling_volatility">>

\* the statistics of the loop body, line by line
StatLines ==
    <<"mean", "std", "sum", "max", "min", "quantile_25", "quantile_75", "skew",
      "kurtosis", "corr">>

\* col + f"_{stat}_{lookback}"
StatColumn(col, stat, lookback) == col \o "_" \o stat \o "_" \o ToString(lookback)

ColumnsOf(t) == {t[i] : i \in 1..Len(t)}

\* df.with_column(name, series): a new column goes last, an old one is replaced
with_column(t, name) == IF name \in ColumnsOf(t) THEN t ELSE Append(t, name)

\* df.with_columns(log_return=..., rolling_weighted_mid_price=...,
\*                 rolling_volatility=..., rolling_volume_imbalance=...)
WithBaseFeatures(t) ==
    with_column(with_column(with_column(with_column(t,
        "log_return"), "rolling_weighted_mid_price"), "rolling_volatility"),
        "rolling_volume_imbalance")

FeaturesInit ==
    /\ BrokerIdle
    /\ orders = << >>
    /\ row = NoRow
    /\ before = << >>
    /\ pc = "next"
    /\ err = "none"
    /\ ReplayIdle
    /\ call = NoCall
    /\ ret = NoReturn
    /\ data = RequiredColumns

\* the table has one more of the optional columns
AddColumn ==
    /\ call = NoCall
    /\ \E c \in OptionalColumns \ ColumnsOf(data) : data' = Append(data, c)
    /\ UNCHANGED <<call, ret, bookVars, replayVars, brokerVars>>

\* build_features(df, lookback) is entered: the four base features are added
BuildFeatures ==
    /\ call = NoCall
    /\ \E lookback \in Lookbacks :
          call' = [fn |-> "build_features", lookback |-> lookback]
    /\ ret' = [status |-> "running", df |-> WithBaseFeatures(data), err |-> "none",
               col |-> 1, line |-> 1]
    /\ UNCHANGED <<data, bookVars, replayVars, brokerVars>>

\* one statement of the loop body: for col in feature_cols, line by line
AddStatColumn ==
    /\ call.fn = "build_features"
    /\ ret.status = "running"
    /\ ret.col <= Len(feature_cols)
    /\ ret' = [ret EXCEPT
                 !.df = with_column(@, StatColumn(feature_cols[ret.col],
                                                  StatLines[ret.line], call.lookback)),
                 !.line = IF ret.line = Len(StatLines) THEN 1 ELSE @ + 1,
                 !.col = IF ret.line = Len(StatLines) THEN @ + 1 ELSE @]
    /\ UNCHANGED <<data, call, bookVars, replayVars, brokerVars>>

\* return df
BuildFeaturesReturn ==
    /\ call.fn = "build_features"
    /\ ret.status = "running"
    /\ ret.col > Len(feature_cols)
    /\ ret' = [ret EXCEPT !.status = "returned"]
    /\ UNCHANGED <<data, call, bookVars, replayVars, brokerVars>>

FeaturesNext == AddColumn \/ BuildFeatures \/ AddStatColumn \/ BuildFeaturesReturn

SpecFeatures == FeaturesInit /\ [][FeaturesNext]_vars

----------------------------------------------------------------------------
(* AlpacaFramework of src/alpaca/framework.py.  The trading client and the  *)
(* request classes are library code: the client is the record of the        *)
(* arguments it is constructed with, its endpoint follows from them, and    *)
(* every call made on it is logged with the endpoint it goes to.            *)

\* the most calls made on the underlying client
MaxClientCalls == 2

PaperUrl == "https://paper-api.alpaca.markets/v2"
LiveUrl == "https://api.alpaca.markets/v2"
BaseUrls == {PaperUrl, LiveUrl}

Tickers == {"AAPL"}
Quantities == {0 - 1, 0, 1}
\* side values a caller may pass; OrderSides are the ones the library knows
SideValues == {"buy", "sell", "hold"}
OrderSides == {"buy", "sell"}
LimitPrices == {100}
ClientOrderIds == {"o1"}

\* TradingClient(api_key, api_secret, paper=paper)
TradingClient(api_key, secret_key, paper) ==
    [api_key |-> api_key, secret_key |-> secret_key, paper |-> paper]

\* where a client sends its calls: it was given no URL, only the paper flag
ClientEndpoint(client) == IF client.paper THEN PaperUrl ELSE LiveUrl

\* AlpacaFramework.__init__
AlpacaFramework(api_key, api_secret, base_url, paper) ==
    [constructed |-> TRUE, base_url |-> base_url, api_key |-> api_key,
     api_secret |-> api_secret, client |-> TradingClient(api_key, api_secret, paper)]

\* MarketOrderRequest with time_in_force 'day'
MarketOrderRequestDay(ticker, qty, side) ==
    [symbol |-> ticker, qty |-> qty, side |-> side, type |-> "market",
     limit_price |-> None, time_in_force |-> "day"]

\* alpaca.trading.requests.MarketOrderRequest(symbol=, qty=, side=, type=, time_in_force=)
MarketOrderRequest(ticker, qty, side) ==
    [symbol |-> ticker, qty |-> qty, side |-> side, type |-> "market",
     limit_price |-> None, time_in_force |-> "gtc"]

\* alpaca.trading.requests.LimitOrderRequest(symbol=, qty=, side=, type=, limit_price=, time_in_force=)
LimitOrderRequest(ticker, qty, side, limit_price) ==
    [symbol |-> ticker, qty |-> qty, side |-> side, type |-> "limit",
     limit_price |-> limit_price, time_in_force |-> "gtc"]

\* a call on the client, as logged
ClientCall(client, method, request, outcome) ==
    [method |-> method, endpoint |-> ClientEndpoint(client), request |-> request,
     outcome |-> outcome]

NoRequest == [symbol |-> "-"]

\* what a call on the client can end with: a value of the server, or an error
Outcomes(method, request) ==
    {[ok |-> TRUE, value |-> [by |-> method, of |-> request]],
     [ok |-> FALSE, value |-> [by |-> "APIError", of |-> request]]}

\* return result / the exception of the client call leaves the method
ResultOf(outcome) ==
    IF outcome.ok
    THEN [status |-> "returned", df |-> << >>, err |-> "none", value |-> outcome.value]
    ELSE [status |-> "raised", df |-> << >>, err |-> "APIError", value |-> outcome.value]

Construct ==
    /\ ~framework.constructed
    /\ \E base_url \in BaseUrls, paper \in BOOLEAN :
          framework' = AlpacaFramework("key", "secret", base_url, paper)
    /\ UNCHANGED <<client_calls, bookVars, replayVars, prepVars>>

\* one call on self.client by a method of the wrapper
CallClient(fn, args, method, request) ==
    /\ Len(client_calls) < MaxClientCalls
    /\ \E outcome \in Outcomes(method, request) :
          /\ client_calls' = Append(client_calls,
                                ClientCall(framework.client, method, request, outcome))
          /\ ret' = ResultOf(outcome)
    /\ call' = [fn |-> fn, args |-> args, calls_before |-> Len(client_calls)]

\* the request class refuses the arguments: the method ends before any call
RequestRefused(fn, args) ==
    /\ call' = [fn |-> fn, args |-> args, calls_before |-> Len(client_calls)]
    /\ ret' = [status |-> "raised", df |-> << >>, err |-> "ValidationError",
               value |-> NoRequest]
    /\ UNCHANGED client_calls

\* place_market_order(ticker, qty, side); a side the library does not know
\* may be refused by the request class
PlaceMarketOrder ==
    /\ framework.constructed
    /\ \E ticker \in Tickers, qty \in Quantities, side \in SideValues :
          \/ CallClient("place_market_order", <<ticker, qty, side>>, "submit_order",
                        MarketOrderRequest(ticker, qty, side))
          \/ /\ side \notin OrderSides
             /\ RequestRefused("place_market_order", <<ticker, qty, side>>)
    /\ UNCHANGED <<framework, data, bookVars, replayVars>>

\* place_limit_order(ticker, qty, side, limit_price)
PlaceLimitOrder ==
    /\ framework.constructed
    /\ \E ticker \in Tickers, qty \in Quantities, side \in SideValues,
          limit_price \in LimitPrices :
          \/ CallClient("place_limit_order", <<ticker, qty, side, limit_price>>,
                        "submit_order", LimitOrderRequest(ticker, qty, side, limit_price))
          \/ /\ side \notin OrderSides
             /\ RequestRefused("place_limit_order", <<ticker, qty, side, limit_price>>)
    /\ UNCHANGED <<framework, data, bookVars, replayVars>>

\* cancel_all_orders()
CancelAllOrders ==
    /\ framework.constructed
    /\ CallClient("cancel_all_orders", << >>, "cancel_orders", NoRequest)
    /\ UNCHANGED <<framework, data, bookVars, replayVars>>

\* cancel_order(order_id)
CancelOrder ==
    /\ framework.constructed
    /\ \E order_id \in ClientOrderIds :
          CallClient("cancel_order", <<order_id>>, "cancel_order_by_id",
                     [symbol |-> "-", order_id |-> order_id])
    /\ UNCHANGED <<framework, data, bookVars, replayVars>>

\* get_orders()
GetOrders ==
    /\ framework.constructed
    /\ CallClient("get_orders", << >>, "get_orders", NoRequest)
    /\ UNCHANGED <<framework, data, bookVars, replayVars>>

\* get_account()
GetAccount ==
    /\ framework.constructed
    /\ CallClient("get_account", << >>, "get_account", NoRequest)
    /\ UNCHANGED <<framework, data, bookVars, replayVars>>

AlpacaInit ==
    /\ orders = << >>
    /\ row = NoRow
    /\ before = << >>
    /\ pc = "next"
    /\ err = "none"
    /\ ReplayIdle
    /\ PrepIdle
    /\ BrokerIdle

AlpacaNext ==
    \/ Construct
    \/ PlaceMarketOrder
    \/ PlaceLimitOrder
    \/ CancelAllOrders
    \/ CancelOrder
    \/ GetOrders
    \/ GetAccount

SpecAlpaca == AlpacaInit /\ [][AlpacaNext]_vars

----------------------------------------------------------------------------
(* main of src/alpaca/test.py: the demo script.  call holds the line main   *)
(* has reached, client_calls the wrapper calls made with what they ended    *)
(* with.  The server's answers and the contents of .config are inputs.      *)

\* the most open orders a get_orders answer lists
MaxOpenOrders == 2

\* .config: with an [alpaca] section holding a key and a secret, or without
Configs ==
    {[section |-> TRUE, api_key |-> k, api_secret |-> s] :
        k \in {"key", "key2"}, s \in {"secret"}}
    \cup {[section |-> FALSE, api_key |-> "", api_secret |-> ""]}

\* what a wrapper call of main can end with: an answer of the server or an error
DemoOutcomes(method, request) ==
    {[ok |-> TRUE, value |-> [by |-> method, of |-> request, open |-> n]] :
        n \in (IF method = "get_orders" THEN 0..MaxOpenOrders ELSE {0})}
    \cup {[ok |-> FALSE, value |-> [by |-> "APIError", of |-> request, open |-> 0]]}

\* a wrapper call of main, as logged: the method, the call it made on the
\* client, and how it ended
DemoCall(fn, method, request, outcome) ==
    [fn |-> fn, method |-> method, endpoint |-> ClientEndpoint(framework.client),
     request |-> request, outcome |-> outcome]

\* a main that goes on to the next line whatever the call ended with
AfterCallCaught(next, outcome) == [fn |-> "main", line |-> next]

\* where main stands after a call: on the next line, or ended by the exception
AfterCall(next, outcome) ==
    IF outcome.ok THEN [fn |-> "main", line |-> next]
    ELSE [fn |-> "main", line |-> 0]

\* one statement of main that calls the wrapper
MainStep(line, next, fn, method, request) ==
    /\ call.fn = "main"
    /\ call.line = line
    /\ \E outcome \in DemoOutcomes(method, request) :
          /\ client_calls' = Append(client_calls, DemoCall(fn, method, request, outcome))
          /\ call' = AfterCall(next, outcome)
          /\ ret' = IF call'.line = 0 THEN ResultOf(outcome) ELSE ret
    /\ UNCHANGED <<framework, data, bookVars, replayVars>>

\* lines 6-11: read .config and construct the wrapper with its defaults
MainStart ==
    /\ call = NoCall
    /\ \E config \in Configs :
          IF config.section
          THEN /\ framework' = AlpacaFramework(config.api_key, config.api_secret,
                                               PaperUrl, TRUE)
               /\ call' = [fn |-> "main", line |-> 15]
               /\ ret' = ret
          ELSE /\ framework' = framework
               /\ call' = [fn |-> "main", line |-> 0]
               /\ ret' = [status |-> "raised", df |-> << >>, err |-> "KeyError",
                          value |-> NoRequest]
    /\ UNCHANGED <<client_calls, data, bookVars, replayVars>>

\* line 15: print(f.get_orders())
MainGetOrders1 == MainStep(15, 18, "get_orders", "get_orders", NoRequest)

\* line 18: f.place_market_order("AAPL", 1, "buy")
MainPlaceMarketOrder ==
    MainStep(18, 21, "place_market_order", "submit_order",
             MarketOrderRequest("AAPL", 1, "buy"))

\* line 21: f.place_limit_order("AAPL", 1, "buy", 100)
MainPlaceLimitOrder ==
    MainStep(21, 25, "place_limit_order", "submit_order",
             LimitOrderRequest("AAPL", 1, "buy", 100))

\* line 25: print(f.get_orders())
MainGetOrders2 == MainStep(25, 29, "get_orders", "get_orders", NoRequest)

\* line 29: f.cancel_all_orders()
MainCancelAllOrders == MainStep(29, 33, "cancel_all_orders", "cancel_orders", NoRequest)

\* line 33: print(f.get_orders()), the last statement of main
MainGetOrders3 == MainStep(33, 34, "get_orders", "get_orders", NoRequest)

DemoNext ==
    \/ MainStart
    \/ MainGetOrders1
    \/ MainPlaceMarketOrder
    \/ MainPlaceLimitOrder
    \/ MainGetOrders2
    \/ MainCancelAllOrders
    \/ MainGetOrders3

SpecDemo == AlpacaInit /\ [][DemoNext]_vars

----------------------------------------------------------------------------
(* The pipeline: prepare_symbol on the raw feed, then build_book_from_mbo   *)
(* on the table it returns.                                                 *)

\* the most rows of the raw feed
MaxFeed == 2

\* rows of the raw feed: the columns prepare_symbol filters on and the ones
\* Book.apply reads
PipeRows ==
    [symbol : Symbols, ts_event : RawTimestamps, action : {"A", "C", "R"},
     side : {"B"}, order_id : {1}, price : {1}, size : {0, 1, 2}]

RECURSIVE build_book_from_mbo(_, _)
\* build_book_from_mbo over the first n rows of t: the two lists, the book
\* after each row, and the exception that ended the loop, if any
build_book_from_mbo(t, n) ==
    IF n = 0
    THEN [best_bids_list |-> << >>, best_asks_list |-> << >>, books |-> << >>,
          book |-> << >>, err |-> "none"]
    ELSE LET p == build_book_from_mbo(t, n - 1)
         IN  IF p.err # "none" THEN p
             ELSE LET it == Iteration(p.book, t[n])
                  IN  [best_bids_list |-> Append(p.best_bids_list, it.bid),
                       best_asks_list |-> Append(p.best_asks_list, it.ask),
                       books |-> IF it.res.err = "none"
                                 THEN Append(p.books, it.res.orders) ELSE p.books,
                       book |-> it.res.orders,
                       err |-> it.res.err]

PipelineInit ==
    /\ BrokerIdle
    /\ orders = << >>
    /\ row = NoRow
    /\ before = << >>
    /\ pc = "next"
    /\ err = "none"
    /\ ReplayIdle
    /\ PrepIdle

\* one more row in the raw feed
AddFeedRow ==
    /\ call = NoCall
    /\ Len(data) < MaxFeed
    /\ \E r \in PipeRows : data' = Append(data, r)
    /\ UNCHANGED <<call, ret, bookVars, replayVars, brokerVars>>

\* build_book_from_mbo(prepare_symbol(data, date, symbol))
Pipeline ==
    /\ call = NoCall
    /\ \E date \in Days, symbol \in Symbols :
          LET prepared == prepare_symbol(data, date, symbol)
              built == build_book_from_mbo(prepared.df, Len(prepared.df))
          IN  /\ call' = [fn |-> "pipeline", date |-> date, symbol |-> symbol]
              /\ ret' = IF prepared.status = "raised"
                        THEN [prepared EXCEPT !.df = << >>] @@
                             [books |-> << >>, best_bids_list |-> << >>,
                              best_asks_list |-> << >>]
                        ELSE [status |-> IF built.err = "none" THEN "returned" ELSE "raised",
                              df |-> prepared.df,
                              err |-> built.err,
                              books |-> built.books,
                              best_bids_list |-> built.best_bids_list,
                              best_asks_list |-> built.best_asks_list]
    /\ UNCHANGED <<data, bookVars, replayVars, brokerVars>>

PipelineNext == AddFeedRow \/ Pipeline

SpecPipeline == PipelineInit /\ [][PipelineNext]_vars

----------------------------------------------------------------------------
(* Book.bbo() as a call on the book: what it returns and what it leaves in  *)
(* self.orders, between events that add, cancel and clear orders.           *)

QueryOrderIds == {1, 2, 3}

\* events that bring the book into every mapping of up to three orders
QueryRows ==
    [action : {"A", "C", "R"}, ts_event : {1}, side : {"A", "B"},
     order_id : QueryOrderIds, price : {1, MaxPrice}, size : {1, MaxSize}]

\* a bbo that takes the orders out of the mapping while it scans them
BboEffectDrains(d) == << >>

\* self.orders after bbo(): the loop reads order.side, order.price and
\* order.size and assigns only to its locals and to the levels it created
BboEffect(d) == d

QueryInit ==
    /\ BrokerIdle
    /\ orders = << >>
    /\ row = NoRow
    /\ before = << >>
    /\ pc = "next"
    /\ err = "none"
    /\ ReplayIdle
    /\ PrepIdle

\* book.apply(row) for the next event; an exception ends the run
QueryApply ==
    /\ pc = "next"
    /\ \E r \in QueryRows :
          LET res == apply(orders, r)
          IN  /\ orders' = res.orders
              /\ err' = res.err
              /\ pc' = IF res.err = "none" THEN "next" ELSE "raised"
    /\ call' = NoCall
    /\ ret' = NoReturn
    /\ UNCHANGED <<row, before, data, replayVars, brokerVars>>

\* book.bbo() is called; call remembers the mapping the call found and what
\* the call before it returned, if no event was applied in between
CallBbo ==
    /\ pc = "next"
    /\ orders' = BboEffect(orders)
    /\ ret' = [status |-> "returned", df |-> << >>, err |-> "none",
               value |-> bbo(orders)]
    /\ call' = [fn |-> "bbo", found |-> orders, again |-> call.fn = "bbo",
                prev |-> IF call.fn = "bbo" THEN ret.value ELSE bbo(<< >>)]
    /\ UNCHANGED <<row, before, pc, err, data, replayVars, brokerVars>>

QueryNext == QueryApply \/ CallBbo

SpecQuery == QueryInit /\ [][QueryNext]_vars

----------------------------------------------------------------------------
(* What the claims speak of.                                                *)

\* the positions of the resting orders of one side
OnSide(d, side) == {i \in 1..Len(d) : d[i].order.side = side}

\* the positions of the resting orders of one side at one price
AtPrice(d, side, price) == {i \in OnSide(d, side) : d[i].order.price = price}

PricesOf(d, S) == {d[i].order.price : i \in S}

MaxOf(S) == CHOOSE x \in S : \A y \in S : y <= x
MinOf(S) == CHOOSE x \in S : \A y \in S : x <= y

RECURSIVE SumSizes(_, _)
\* the sum of the sizes of the orders at the positions S
SumSizes(d, S) ==
    IF S = {}
    THEN 0
    ELSE LET i == CHOOSE j \in S : TRUE
         IN  d[i].order.size + SumSizes(d, S \ {i})

best_bid == bbo(orders)[1]
best_ask == bbo(orders)[2]

\* Book.apply has returned for the current row / has raised on it
Applied == pc = "applied"
Raised == pc = "raised"

\* the row's side is neither A nor B / its price is the undefined-price sentinel
InvalidSide == row.side \notin {"A", "B"}
UndefinedPrice == row.price = UNDEF_PRICE

\* the order that rested under the row's identifier when apply was entered
Resting == Has(before, row.order_id)
OrderBefore == Get(before, row.order_id)
OrderAfter == Get(orders, row.order_id)

----------------------------------------------------------------------------
(* C1: in every book state the replay reaches, the best-bid price of bbo()  *)
(* is the maximum price of the resting B orders and the best-ask price the  *)
(* minimum price of the resting A orders; a side's price is None exactly    *)
(* when no order rests on that side, and then its size, count and           *)
(* total_size are 0.                                                        *)
C1_BestPrices ==
    LET bid == best_bid
        ask == best_ask
        B == OnSide(orders, "B")
        A == OnSide(orders, "A")
    IN  /\ (B = {}) <=> (bid.price = None)
        /\ (A = {}) <=> (ask.price = None)
        /\ bid.price = None =>
              bid.size = 0 /\ bid.count = 0 /\ bid.total_size = 0
        /\ ask.price = None =>
              ask.size = 0 /\ ask.count = 0 /\ ask.total_size = 0
        /\ B # {} => bid.price = MaxOf(PricesOf(orders, B))
        /\ A # {} => ask.price = MinOf(PricesOf(orders, A))

\* two bids rest, the better one inserted first, and no ask rests
C1_Witness ==
    /\ Applied
    /\ Len(orders) = 2
    /\ OnSide(orders, "B") = {1, 2}
    /\ orders[1].order.price > orders[2].order.price
    /\ best_bid.price = orders[1].order.price
    /\ best_ask.price = None

(* C2: in every book state the replay reaches, for each side the size of    *)
(* bbo() is the sum of the sizes of the resting orders of that side at the  *)
(* best price and the count is the number of those orders.                  *)
C2_BestLevel ==
    LET bid == best_bid
        ask == best_ask
        B == AtPrice(orders, "B", bid.price)
        A == AtPrice(orders, "A", ask.price)
    IN  /\ OnSide(orders, "B") # {} =>
              bid.size = SumSizes(orders, B) /\ bid.count = Cardinality(B)
        /\ OnSide(orders, "A") # {} =>
              ask.size = SumSizes(orders, A) /\ ask.count = Cardinality(A)

\* two asks of positive size rest at one price and merge into one level
C2_Witness ==
    /\ Applied
    /\ OnSide(orders, "A") = {1, 2}
    /\ orders[1].order.price = orders[2].order.price
    /\ orders[1].order.size > 0 /\ orders[2].order.size > 0
    /\ best_ask.count = 2
    /\ best_ask.size = orders[1].order.size + orders[2].order.size

(* C3: in every book state the replay reaches, for each side the total_size *)
(* of bbo() is the sum of the sizes of all resting orders of that side, at  *)
(* every price.                                                             *)
C3_TotalSize ==
    /\ best_bid.total_size = SumSizes(orders, OnSide(orders, "B"))
    /\ best_ask.total_size = SumSizes(orders, OnSide(orders, "A"))

\* two bids rest at different prices: the total exceeds the best level's size
C3_Witness ==
    /\ Applied
    /\ OnSide(orders, "B") = {1, 2}
    /\ orders[1].order.price # orders[2].order.price
    /\ orders[1].order.size > 0 /\ orders[2].order.size > 0
    /\ best_bid.total_size > best_bid.size

(* C4: a Cancel that passes the assertions on side and price, of size c,    *)
(* applied to a resting order of size s: with c < s the order stays in the  *)
(* book with size s - c; with c = s the order's identifier is removed from  *)
(* the book.                                                                *)
C4_CancelReducesOrRemoves ==
    (row.action = "C" /\ (~InvalidSide /\ ~UndefinedPrice) /\ Resting) =>
        /\ row.size < OrderBefore.size =>
              /\ Applied
              /\ Has(orders, row.order_id)
              /\ OrderAfter.size = OrderBefore.size - row.size
        /\ row.size = OrderBefore.size =>
              /\ Applied
              /\ ~Has(orders, row.order_id)

\* a partial cancel of a positive size has left a smaller order in the book
C4_Witness ==
    /\ Applied /\ row.action = "C" /\ Resting
    /\ row.size > 0 /\ row.size < OrderBefore.size
    /\ Has(orders, row.order_id)
    /\ OrderAfter.size = OrderBefore.size - row.size

\* a full cancel has removed the order and left another one resting
C4_WitnessFull ==
    /\ Applied /\ row.action = "C" /\ Resting
    /\ row.size = OrderBefore.size
    /\ Len(before) = 2 /\ Len(orders) = 1
    /\ ~Has(orders, row.order_id)

(* C5, as stated: any Cancel whose order identifier is not resting is       *)
(* silently ignored: apply returns without failure and the order mapping is *)
(* what it was before the event.                                            *)
C5_AnyCancelOfUnknownIgnored ==
    (row.action = "C" /\ ~Resting) => (Applied /\ orders = before)

(* C5, amended: a Cancel whose order identifier is not resting leaves the   *)
(* order mapping what it was before the event; apply returns without        *)
(* failure if the event's side is A or B and its price is defined, and      *)
(* raises the assertion failure otherwise.                                  *)
C5_CancelOfUnknownIgnored ==
    (row.action = "C" /\ ~Resting) =>
        /\ orders = before
        /\ (~InvalidSide /\ ~UndefinedPrice) => (Applied /\ err = "none")
        /\ (InvalidSide \/ UndefinedPrice) => (Raised /\ err = "AssertionError")

\* a Cancel of an identifier that does not rest has returned on a book that is not empty
C5_Witness ==
    /\ Applied /\ row.action = "C" /\ ~Resting
    /\ before # << >>
    /\ orders = before

(* C6: a Modify that passes the assertions on side and price, applied to a  *)
(* resting order, leaves the order with the event's price and size; its     *)
(* priority timestamp is the event's timestamp if the event's price differs *)
(* from the order's price or the event's size is larger than the order's    *)
(* size, and is unchanged otherwise.                                        *)
C6_ModifyPriority ==
    (row.action = "M" /\ (~InvalidSide /\ ~UndefinedPrice) /\ Resting) =>
        /\ Applied
        /\ Has(orders, row.order_id)
        /\ OrderAfter.price = row.price
        /\ OrderAfter.size = row.size
        /\ OrderAfter.ts_event =
              IF OrderBefore.price # row.price \/ OrderBefore.size < row.size
              THEN row.ts_event
              ELSE OrderBefore.ts_event

\* a Modify that shrinks an order at its price has kept a timestamp other than the event's
C6_Witness ==
    /\ Applied /\ row.action = "M" /\ Resting
    /\ OrderBefore.price = row.price /\ row.size < OrderBefore.size
    /\ row.ts_event # OrderBefore.ts_event
    /\ OrderAfter.ts_event = OrderBefore.ts_event
    /\ OrderAfter.size = row.size

\* a Modify that grows an order at its price has given it the event's timestamp
C6_WitnessReset ==
    /\ Applied /\ row.action = "M" /\ Resting
    /\ OrderBefore.price = row.price /\ row.size > OrderBefore.size
    /\ row.ts_event # OrderBefore.ts_event
    /\ OrderAfter.ts_event = row.ts_event

(* C7: a Clear event, whatever its side, price, size and order_id, leaves   *)
(* the book with no resting order, and bbo() then returns price None and    *)
(* size, count and total_size 0 on both sides.                              *)
C7_ClearEmptiesBook ==
    row.action = "R" =>
        /\ Applied
        /\ orders = << >>
        /\ bbo(orders) = <<EmptyLevel, EmptyLevel>>

\* a Clear with no side and the undefined price has emptied a book of two orders
C7_Witness ==
    /\ Applied /\ row.action = "R"
    /\ row.side = "N" /\ row.price = UNDEF_PRICE
    /\ Len(before) = 2
    /\ orders = << >>

(* C8: a Trade or Fill event, whatever its other fields, returns without    *)
(* failure and leaves the order mapping unchanged.                          *)
C8_TradeFillNoChange ==
    (row.action = "T" \/ row.action = "F") =>
        (Applied /\ err = "none" /\ orders = before)

\* a Trade with no side and the undefined price has returned on a book that is not empty
C8_Witness ==
    /\ Applied /\ row.action = "T"
    /\ row.side = "N" /\ row.price = UNDEF_PRICE
    /\ before # << >>
    /\ orders = before

(* C9: a Cancel whose size exceeds the size of the resting order it names   *)
(* raises the assertion failure and leaves the book as it was before the    *)
(* event.                                                                   *)
C9_OversizedCancelFails ==
    (row.action = "C" /\ Resting /\ row.size > OrderBefore.size) =>
        (Raised /\ err = "AssertionError" /\ orders = before)

\* an oversized Cancel with a valid side and price has raised; the order keeps its size
C9_Witness ==
    /\ Raised /\ row.action = "C" /\ (~InvalidSide /\ ~UndefinedPrice) /\ Resting
    /\ row.size > OrderBefore.size
    /\ Has(orders, row.order_id)
    /\ OrderAfter.size = OrderBefore.size

(* C10: an Add, Cancel or Modify event whose side is neither A nor B or     *)
(* whose price is the undefined price raises the assertion failure and      *)
(* leaves the book as it was before the event.                              *)
C10_InvalidRestingEventFails ==
    (row.action \in {"A", "C", "M"} /\ (InvalidSide \/ UndefinedPrice)) =>
        (Raised /\ err = "AssertionError" /\ orders = before)

\* an Add with a valid side and the undefined price has raised on a book that is not empty
C10_Witness ==
    /\ Raised /\ row.action = "A"
    /\ row.side \in {"A", "B"} /\ row.price = UNDEF_PRICE
    /\ before # << >>
    /\ orders = before

(* C11: the book holds at most one resting order per order identifier in   *)
(* every state the replay reaches; an Add that passes the assertions and    *)
(* whose identifier is already resting leaves the number of resting orders  *)
(* unchanged, with the one order under that identifier carrying the event's *)
(* side, price, size and timestamp.                                         *)
C11_OneOrderPerId ==
    /\ \A i, j \in 1..Len(orders) : orders[i].id = orders[j].id => i = j
    /\ (row.action = "A" /\ ~InvalidSide /\ ~UndefinedPrice /\ Resting) =>
          /\ Applied
          /\ Len(orders) = Len(before)
          /\ Cardinality({i \in 1..Len(orders) : orders[i].id = row.order_id}) = 1
          /\ OrderAfter.side = row.side
          /\ OrderAfter.price = row.price
          /\ OrderAfter.size = row.size
          /\ OrderAfter.ts_event = row.ts_event

\* an Add under a resting identifier has replaced an order of the other side
C11_Witness ==
    /\ Applied /\ row.action = "A" /\ Resting
    /\ Len(before) = 2 /\ Len(orders) = 2
    /\ OrderBefore.side # row.side
    /\ OrderBefore.price # row.price
    /\ OrderAfter.side = row.side
    /\ OrderAfter.ts_event = row.ts_event

----------------------------------------------------------------------------
RECURSIVE BookAfter(_, _)
\* the order mapping of a fresh Book after the first k rows of the table t
BookAfter(t, k) ==
    IF k = 0 THEN << >> ELSE apply(BookAfter(t, k - 1), t[k]).orders

(* C12: when build_book_from_mbo returns for a table of n rows, both lists  *)
(* hold n records, and for every k the k-th record of each list carries the *)
(* timestamp of row k and the price, size and total_size that bbo() gives   *)
(* for a fresh book to which rows 1..k-1 only were applied.                 *)
C12_SnapshotBeforeRow ==
    pc = "returned" =>
        /\ Len(best_bids_list) = Len(df)
        /\ Len(best_asks_list) = Len(df)
        /\ \A k \in 1..Len(df) :
              LET b == bbo(BookAfter(df, k - 1))
              IN  /\ best_bids_list[k].ts_event = df[k].ts_event
                  /\ best_asks_list[k].ts_event = df[k].ts_event
                  /\ best_bids_list[k].price = b[1].price
                  /\ best_bids_list[k].size = b[1].size
                  /\ best_bids_list[k].total = b[1].total_size
                  /\ best_asks_list[k].price = b[2].price
                  /\ best_asks_list[k].size = b[2].size
                  /\ best_asks_list[k].total = b[2].total_size

\* a table of two Adds was replayed: the first record is the empty book's, the
\* second shows the first Add only, and the second Add rests without a record
C12_Witness ==
    /\ pc = "returned"
    /\ Len(df) = 2 /\ Len(best_bids_list) = 2 /\ Len(best_asks_list) = 2
    /\ df[1].action = "A" /\ df[1].side = "B"
    /\ df[2].action = "A" /\ df[2].side = "A" /\ df[2].order_id # df[1].order_id
    /\ df[1].ts_event # df[2].ts_event
    /\ best_bids_list[1].price = None
    /\ best_bids_list[2].price = df[1].price
    /\ best_asks_list[2].price = None
    /\ Len(orders) = 2

----------------------------------------------------------------------------
\* the rows the claim selects: requested symbol, non-zero size, neither Trade
\* nor Fill, event on the requested day
Selected(t, date, symbol) ==
    LET Keep(r) == /\ r.symbol = symbol
                   /\ r.size # 0
                   /\ r.action \notin {"T", "F"}
                   /\ r.ts_event \div TicksPerDay = date
    IN  SelectSeq(t, Keep)

(* C13: prepare_symbol(data, date, symbol) returns exactly the rows of data *)
(* that have the requested symbol, a non-zero size, an action other than T  *)
(* and F and an event date equal to the requested date, in their original   *)
(* order.                                                                   *)
C13_PrepareSymbolSelects ==
    call.fn = "prepare_symbol" =>
        /\ ret.status = "returned"
        /\ ret.df = Selected(data, call.date, call.symbol)

(* C14: get_data with remove_min set returns the prepared table with every  *)
(* timestamp reduced by the earliest one, so that the smallest ts_event of  *)
(* a returned table that has rows is zero.                                  *)
C14_GetDataRebases ==
    (call.fn = "get_data" /\ call.remove_min) =>
        /\ ret.status = "returned"
        /\ Len(ret.df) > 0 =>
              /\ \A i \in 1..Len(ret.df) : ret.df[i].ts_event >= 0
              /\ \E i \in 1..Len(ret.df) : ret.df[i].ts_event = 0

----------------------------------------------------------------------------
\* the positions of the snapshots of a list that fall into bucket b
InBucket(list, b) ==
    {i \in 1..Len(list) : (IF call.unit = "ms" THEN list[i].ts_event \div UsPerMs
                           ELSE list[i].ts_event \div UsPerS) = b}

BucketsOf(list) ==
    {(IF call.unit = "ms" THEN list[i].ts_event \div UsPerMs
      ELSE list[i].ts_event \div UsPerS) : i \in 1..Len(list)}

RECURSIVE SumOver(_, _)
\* the sum of the column f over the positions S
SumOver(f, S) ==
    IF S = {} THEN 0
    ELSE LET i == CHOOSE j \in S : TRUE
         IN  f[i] + SumOver(f, S \ {i})

\* one side of C15: list is the input, agg the aggregated series
AggregatesList(list, agg) ==
    LET sizes == [j \in 1..Len(list) |-> list[j].size]
        prices == [j \in 1..Len(list) |-> list[j].price]
    IN  /\ {agg[i].ts_event : i \in 1..Len(agg)} = BucketsOf(list)
        /\ Len(agg) = Cardinality(BucketsOf(list))
        /\ \A i \in 1..Len(agg) :
              LET S == InBucket(list, agg[i].ts_event)
                  P == {j \in S : list[j].price # None}
                  last == CHOOSE j \in S : \A k \in S : k <= j
              IN  /\ agg[i].ct = SumOver(sizes, S)
                  /\ agg[i].total = list[last].total
                  /\ agg[i].px.count = Cardinality(P)
                  /\ agg[i].px.sum = SumOver(prices, P)
                  /\ agg[i].px.scale = FIXED_PRICE_SCALE

(* C15: merge_bbo with unit "ms" or "s" aggregates each side into one       *)
(* record per timestamp bucket, whose size is the sum of the sizes of the   *)
(* snapshots of the bucket, whose total is the total of the last snapshot   *)
(* of the bucket in input order, and whose price is the mean of the prices  *)
(* of the bucket's snapshots that have one (their sum over their number, in *)
(* units of FIXED_PRICE_SCALE).                                             *)
C15_BucketAggregates ==
    call.fn = "merge_bbo" =>
        /\ AggregatesList(best_bids_list, ret.best_bids)
        /\ AggregatesList(best_asks_list, ret.best_asks)

\* bids at prices 100 and 102 in one bucket, the later one with the smaller
\* total: mean price 101, summed size, total of the later snapshot
C15_Witness ==
    /\ call.fn = "merge_bbo" /\ call.unit = "s"
    /\ Len(best_bids_list) = 2
    /\ best_bids_list[1].ts_event # best_bids_list[2].ts_event
    /\ best_bids_list[1].price = 100 /\ best_bids_list[2].price = 102
    /\ best_bids_list[1].total = 9 /\ best_bids_list[2].total = 5
    /\ Len(ret.best_bids) = 1
    /\ ret.best_bids[1].px.sum = 101 * ret.best_bids[1].px.count
    /\ ret.best_bids[1].ct = 12
    /\ ret.best_bids[1].total = 5
    /\ Len(ret.df) = 1
    /\ ret.df[1].bid_px_00 = ret.best_bids[1].px

(* C16: the table merge_bbo returns has exactly one row for each timestamp  *)
(* bucket that occurs in both the best-bid and the best-ask series, and no  *)
(* row for a bucket that occurs on one side only.                           *)
C16_InnerJoinRows ==
    call.fn = "merge_bbo" =>
        LET common == BucketsOf(best_bids_list) \cap BucketsOf(best_asks_list)
        IN  /\ {ret.df[i].ts_event : i \in 1..Len(ret.df)} = common
            /\ Len(ret.df) = Cardinality(common)

\* the bid side has two buckets, one of them also on the ask side: one row
C16_Witness ==
    /\ call.fn = "merge_bbo"
    /\ Cardinality(BucketsOf(best_bids_list)) = 2
    /\ Cardinality(BucketsOf(best_asks_list)) = 1
    /\ BucketsOf(best_asks_list) \subseteq BucketsOf(best_bids_list)
    /\ Len(ret.df) = 1

(* C17: for a table of n rows and an offset k with 0 <= k <= n,             *)
(* prep_for_prediction returns exactly the first n - k rows of the table,   *)
(* and every returned row has a target that is not null.                    *)
C17_TruncatesFinalRows ==
    (call.fn = "prep_for_prediction" /\ call.offset <= Len(data)) =>
        /\ ret.status = "returned"
        /\ Len(ret.df) = Len(data) - call.offset
        /\ \A i \in 1..Len(ret.df) :
              /\ ret.df[i].bid_px_00 = data[i].bid_px_00
              /\ ret.df[i].ask_px_00 = data[i].ask_px_00
              /\ ret.df[i].target # None

(* C18: build_features with lookback 60 adds, for each of log_return,       *)
(* rolling_weighted_mid_price, rolling_volatility and                       *)
(* rolling_volume_imbalance, exactly the nine statistic columns mean, std,  *)
(* sum, max, min, quantile_25, quantile_75, skew and kurtosis with the      *)
(* lookback as suffix: 36 statistic columns in all and no other.            *)
C18_NineStatisticsPerFeature ==
    (call.fn = "build_features" /\ call.lookback = 60 /\ ret.status = "returned") =>
        LET base == {"log_return", "rolling_weighted_mid_price", "rolling_volatility",
                     "rolling_volume_imbalance"}
            nine == {"mean", "std", "sum", "max", "min", "quantile_25", "quantile_75",
                     "skew", "kurtosis"}
            added == {ret.df[i] : i \in 1..Len(ret.df)}
                        \ ({data[i] : i \in 1..Len(data)} \cup base)
        IN  /\ added = {c \o "_" \o s \o "_60" : c \in base, s \in nine}
            /\ Cardinality(added) = 36

----------------------------------------------------------------------------
\* the last call was place_market_order or place_limit_order
PlacedOrder == call.fn \in {"place_market_order", "place_limit_order"}

\* the calls the last method call made on the client
CallsMade == SubSeq(client_calls, call.calls_before + 1, Len(client_calls))

\* the one call made is a submission of the caller's order, good-til-cancelled,
\* and the method ended as the submission did
SubmittedOnceAsGiven ==
    /\ Len(CallsMade) = 1
    /\ CallsMade[1].method = "submit_order"
    /\ CallsMade[1].request.symbol = call.args[1]
    /\ CallsMade[1].request.qty = call.args[2]
    /\ CallsMade[1].request.side = call.args[3]
    /\ CallsMade[1].request.time_in_force = "gtc"
    /\ call.fn = "place_limit_order" => CallsMade[1].request.limit_price = call.args[4]
    /\ CallsMade[1].request.type = (IF call.fn = "place_limit_order" THEN "limit" ELSE "market")
    /\ ret.status = (IF CallsMade[1].outcome.ok THEN "returned" ELSE "raised")
    /\ ret.value = CallsMade[1].outcome.value

C20_CallsGoToBaseUrl ==
    \A i \in 1..Len(client_calls) : client_calls[i].endpoint = framework.base_url

----------------------------------------------------------------------------
\* the wrapper calls of main, in the order of the script
DemoOrder ==
    <<"get_orders", "place_market_order", "place_limit_order", "get_orders",
      "cancel_all_orders", "get_orders">>

(* C21: the wrapper calls the demo script has issued are always the first   *)
(* calls of get_orders, place_market_order, place_limit_order, get_orders,  *)
(* cancel_all_orders, get_orders, in that order; a call that failed is the  *)
(* last one issued and has ended the script; the script ends without an     *)
(* error only after all six.                                                *)
C21_DemoCallOrder ==
    call.fn = "main" =>
        /\ Len(client_calls) <= Len(DemoOrder)
        /\ \A i \in 1..Len(client_calls) :
              /\ client_calls[i].fn = DemoOrder[i]
              /\ ~client_calls[i].outcome.ok => (i = Len(client_calls) /\ call.line = 0)
        /\ call.line = 34 => Len(client_calls) = Len(DemoOrder)

\* place_limit_order failed: the script has ended after three calls, and
\* cancel_all_orders was not issued
C21_Witness ==
    /\ call.fn = "main"
    /\ call.line = 0
    /\ Len(client_calls) = 3
    /\ client_calls[3].fn = "place_limit_order"
    /\ ~client_calls[3].outcome.ok
    /\ ret.err = "APIError"

----------------------------------------------------------------------------
\* the Clear rows of the requested symbol and date in the raw feed, in order
ClearsOfFeed ==
    LET IsClear(r) == /\ r.action = "R"
                      /\ r.symbol = call.symbol
                      /\ r.ts_event \div TicksPerDay = call.date
    IN  SelectSeq(data, IsClear)

\* the Clear rows that were replayed through the Book, in order
ClearsReplayed ==
    LET IsClear(r) == r.action = "R" IN SelectSeq(ret.df, IsClear)

(* C23: in the pipeline prepare_symbol then build_book_from_mbo, every Clear *)
(* row of the requested symbol and date in the raw feed, whatever its size,  *)
(* is replayed through the Book, and the book is empty after it.             *)
C23_EveryClearReachesBook ==
    (call.fn = "pipeline" /\ ret.status = "returned") =>
        /\ ClearsReplayed = ClearsOfFeed
        /\ \A j \in 1..Len(ret.df) : ret.df[j].action = "R" => ret.books[j] = << >>

(* C22: for every book reached by replaying valid events in which both a   *)
(* best bid and a best ask are present, bid_ask_spread of the BBO, the best *)
(* ask price minus the best bid price, is strictly greater than zero.       *)
C22_SpreadPositive ==
    LET b == bbo(orders)
    IN  (b[1].price # None /\ b[2].price # None) =>
            bid_ask_spread([bid_px_00 |-> b[1].price, ask_px_00 |-> b[2].price]) > 0

(* C24: the target prep_for_prediction assigns to row i is the change in    *)
(* mid-price from row i to row i + offset: mid_price[i + offset] minus      *)
(* mid_price[i].                                                            *)
C24_TargetIsForwardDifference ==
    call.fn = "prep_for_prediction" =>
        LET mid == mid_price(data)
        IN  \A i \in 1..Len(ret.df) :
               (mid[i] # None /\ mid[i + call.offset] # None) =>
                   ret.df[i].target = mid[i + call.offset] - mid[i]

----------------------------------------------------------------------------
(* C25: a Modify event whose order identifier is not resting is not        *)
(* ignored: Book.apply fails with an error (KeyError when the event passes *)
(* the assertions on side and price, AssertionError otherwise), and the    *)
(* order mapping is exactly what it was before the event.                  *)
C25_ModifyOfUnknownFails ==
    (pc # "next" /\ row.action = "M" /\ ~Resting) =>
        /\ Raised
        /\ err = (IF InvalidSide \/ UndefinedPrice THEN "AssertionError" ELSE "KeyError")
        /\ orders = before

\* a Modify of an identifier that is not resting, while another order rests
C25_Witness ==
    /\ Raised
    /\ row.action = "M"
    /\ ~Resting
    /\ err = "KeyError"
    /\ before # << >>
    /\ orders = before

(* C26: when the book held only orders of size >= 1 and an event is        *)
(* applied whose size is >= 1 if it is an Add, a Cancel or a Modify, every  *)
(* order resting afterwards has size >= 1.  From the empty book this gives  *)
(* the same for every sequence of such events.                              *)
C26_SizesStayPositive ==
    (/\ Applied
     /\ row.action \in {"A", "C", "M"} => row.size >= 1
     /\ \A i \in 1..Len(before) : before[i].order.size >= 1)
        => \A i \in 1..Len(orders) : orders[i].order.size >= 1

\* a Cancel of the full size of one of two resting orders, both of size >= 1
C26_Witness ==
    /\ Applied
    /\ row.action = "C"
    /\ Resting
    /\ row.size >= 1
    /\ row.size = OrderBefore.size
    /\ Len(before) = 2
    /\ \A i \in 1..Len(before) : before[i].order.size >= 1
    /\ Len(orders) = 1

(* C27: a Modify never changes the side of the order it names, also when    *)
(* the event's side is the other valid side.                                *)
C27_ModifyKeepsSide ==
    (Applied /\ row.action = "M") =>
        /\ Has(orders, row.order_id)
        /\ OrderAfter.side = OrderBefore.side

\* a Modify with side A of an order resting on side B
C27_Witness ==
    /\ Applied
    /\ row.action = "M"
    /\ OrderBefore.side = "B"
    /\ row.side = "A"
    /\ OrderAfter.side = "B"

\* every order but the one the event names is as it was
OthersUnchanged ==
    \A id \in (Keys(before) \cup Keys(orders)) \ {row.order_id} :
        /\ Has(before, id)
        /\ Has(orders, id)
        /\ Get(orders, id) = Get(before, id)

(* C28: a Cancel that leaves a positive residual size changes only the size *)
(* of the order it names (side, price and priority timestamp stay), and a   *)
(* Cancel or a Modify changes no order other than the one it names.         *)
C28_CancelModifyFrame ==
    (Applied /\ row.action \in {"C", "M"}) =>
        /\ OthersUnchanged
        /\ (row.action = "C" /\ Resting /\ row.size < OrderBefore.size) =>
              /\ Has(orders, row.order_id)
              /\ OrderAfter.size = OrderBefore.size - row.size
              /\ OrderAfter.side = OrderBefore.side
              /\ OrderAfter.price = OrderBefore.price
              /\ OrderAfter.ts_event = OrderBefore.ts_event

\* a partial Cancel, later than the order it names, while another order rests
C28_Witness ==
    /\ Applied
    /\ row.action = "C"
    /\ Resting
    /\ row.size >= 1
    /\ row.size < OrderBefore.size
    /\ row.ts_event # OrderBefore.ts_event
    /\ Len(before) = 2
    /\ Len(orders) = 2

----------------------------------------------------------------------------
SameMapping(d) == TablesOf({d[i] : i \in 1..Len(d)})

(* C30: the result of Book.bbo() depends only on the mapping from           *)
(* identifiers to orders, not on the order of insertion: every book with    *)
(* the same mapping gives the same best-bid and best-ask levels (price,     *)
(* size, count, total_size).                                                *)
C30_BboIgnoresInsertionOrder ==
    LET b == bbo(orders)
    IN  \A d \in SameMapping(orders) : bbo(d) = b

\* three asks, the two at the best price of different sizes and inserted
\* around the third
C30_Witness ==
    /\ Len(orders) = 3
    /\ \A i \in 1..3 : orders[i].order.side = "A"
    /\ orders[1].order.price = 1 /\ orders[3].order.price = 1
    /\ orders[2].order.price = 2
    /\ orders[1].order.size # orders[3].order.size
    /\ orders[1].id > orders[3].id
    /\ bbo(orders)[2].count = 2

====
